---- MODULE Spec2Model ----
(***************************************************************************)
(* A model of etl::queue_spsc_locked (include/etl/queue_spsc_locked.h):    *)
(* a fixed-capacity ring buffer shared by one producer and one consumer.   *)
(* The locked operations bracket the core operation with the lock/unlock   *)
(* callbacks; the _from_unlocked operations call the core directly.        *)
(***************************************************************************)
EXTENDS Integers, Sequences, FiniteSets, TLC

\* ------------------------------------------------------------------ bounds
MaxCapacity == 2      \* template parameter SIZE ranges over 1..MaxCapacity
MaxValue == 2         \* element values are 1..MaxValue
MaxPushes == 4        \* successful pushes per behaviour
MaxLockCalls == 4     \* lock() calls per behaviour
MaxFgCalls == 2       \* foreground operations per behaviour of the two contexts
MaxRoleCalls == 3     \* foreground operations per behaviour of producer and consumer
MaxRacePushes == 2    \* successful pushes per behaviour of the unlocked foreground
MaxRacePops == 2      \* successful pops per behaviour of the unlocked foreground
SizeTypeBits == 3     \* width of size_type

Values == 1..MaxValue
Modulus == 2 ^ SizeTypeBits
integral_limits_max == Modulus - 1

\* ------------------------------------------------------------------ elements
\* A slot of the uninitialised buffer holds either no object (Uninit) or a
\* live T: its value and the identity of the object (the ordinal of the
\* successful push that constructed it).
Uninit == [val |-> 0, id |-> 0]
IsLive(slot) == slot.id # 0
Construct(value, id) == [val |-> value, id |-> id]
Void == "void"
\* What an operation raises besides its return value (the header holds no
\* ETL_ASSERT and no throw).
NoError == "none"

\* ------------------------------------------------------------------ the core
\* iqueue_spsc_locked_base: the constructor's member initialisers.
iqueue_spsc_locked_base(max_size_) ==
  [p_buffer     |-> [i \in 0..(max_size_ - 1) |-> Uninit],
   write_index  |-> 0,
   read_index   |-> 0,
   current_size |-> 0,
   MAX_SIZE     |-> max_size_]

\* get_next_index that wraps one slot early (the test reads
\* index == maximum - 1 after the increment).
get_next_index_wrap_early(index, maximum) ==
  LET incremented == (index + 1) % Modulus
  IN  IF incremented >= maximum - 1 THEN 0 ELSE incremented

get_next_index(index, maximum) ==
  LET incremented == (index + 1) % Modulus
  IN  IF incremented = maximum THEN 0 ELSE incremented

\* push_implementation with the test for a full queue left out.
push_implementation_unchecked(q, value, id) ==
  [q |-> [q EXCEPT !.p_buffer[q.write_index] = Construct(value, id),
                   !.write_index = get_next_index(q.write_index, q.MAX_SIZE),
                   !.current_size = (q.current_size + 1) % Modulus],
   result |-> TRUE,
   error |-> NoError,
   overwrote |-> IsLive(q.p_buffer[q.write_index])]

\* push_implementation without the line that advances write_index.
push_implementation_no_advance(q, value, id) ==
  IF q.current_size # q.MAX_SIZE
  THEN [q |-> [q EXCEPT !.p_buffer[q.write_index] = Construct(value, id),
                        !.current_size = (q.current_size + 1) % Modulus],
        result |-> TRUE,
        error |-> NoError,
        overwrote |-> IsLive(q.p_buffer[q.write_index])]
  ELSE [q |-> q, result |-> FALSE, error |-> NoError, overwrote |-> FALSE]

\* Placement new into p_buffer[write_index]. overwrote: a live object was
\* constructed over.
push_implementation(q, value, id) ==
  IF q.current_size # q.MAX_SIZE
  THEN [q |-> [q EXCEPT !.p_buffer[q.write_index] = Construct(value, id),
                        !.write_index = get_next_index(q.write_index, q.MAX_SIZE),
                        !.current_size = (q.current_size + 1) % Modulus],
        result |-> TRUE,
        error |-> NoError,
        overwrote |-> IsLive(q.p_buffer[q.write_index])]
  ELSE [q |-> q, result |-> FALSE, error |-> NoError, overwrote |-> FALSE]

\* emplace_implementation that takes a full queue for one with room left
\* (the test reads current_size <= MAX_SIZE).
emplace_implementation_one_more(q, args, id) ==
  IF q.current_size <= q.MAX_SIZE
  THEN [q |-> [q EXCEPT !.p_buffer[q.write_index] = Construct(args, id),
                        !.write_index = get_next_index(q.write_index, q.MAX_SIZE),
                        !.current_size = (q.current_size + 1) % Modulus],
        result |-> TRUE,
        error |-> NoError,
        overwrote |-> IsLive(q.p_buffer[q.write_index])]
  ELSE [q |-> q, result |-> FALSE, error |-> NoError, overwrote |-> FALSE]

emplace_implementation(q, args, id) ==
  IF q.current_size # q.MAX_SIZE
  THEN [q |-> [q EXCEPT !.p_buffer[q.write_index] = Construct(args, id),
                        !.write_index = get_next_index(q.write_index, q.MAX_SIZE),
                        !.current_size = (q.current_size + 1) % Modulus],
        result |-> TRUE,
        error |-> NoError,
        overwrote |-> IsLive(q.p_buffer[q.write_index])]
  ELSE [q |-> q, result |-> FALSE, error |-> NoError, overwrote |-> FALSE]

\* pop_implementation(reference) that reads the slot behind write_index (the
\* newest element) and destructs the one at read_index.
pop_implementation_value_newest(q, value) ==
  IF q.current_size = 0
  THEN [q |-> q, result |-> FALSE, value |-> value, destroyed |-> <<>>]
  ELSE [q |-> [q EXCEPT !.p_buffer[q.read_index] = Uninit,
                        !.read_index = get_next_index(q.read_index, q.MAX_SIZE),
                        !.current_size = (q.current_size - 1) % Modulus],
        result |-> TRUE,
        value |-> q.p_buffer[(q.write_index + q.MAX_SIZE - 1) % q.MAX_SIZE].val,
        destroyed |-> <<q.p_buffer[q.read_index]>>]

\* pop_implementation(reference) that assigns the output before it tests
\* for an empty queue.
pop_implementation_value_early_read(q, value) ==
  IF q.current_size = 0
  THEN [q |-> q, result |-> FALSE, value |-> q.p_buffer[q.read_index].val,
        destroyed |-> <<>>]
  ELSE [q |-> [q EXCEPT !.p_buffer[q.read_index] = Uninit,
                        !.read_index = get_next_index(q.read_index, q.MAX_SIZE),
                        !.current_size = (q.current_size - 1) % Modulus],
        result |-> TRUE,
        value |-> q.p_buffer[q.read_index].val,
        destroyed |-> <<q.p_buffer[q.read_index]>>]

\* pop_implementation(reference) without the line that decrements
\* current_size.
pop_implementation_value_no_decrement(q, value) ==
  IF q.current_size = 0
  THEN [q |-> q, result |-> FALSE, value |-> value, destroyed |-> <<>>]
  ELSE [q |-> [q EXCEPT !.p_buffer[q.read_index] = Uninit,
                        !.read_index = get_next_index(q.read_index, q.MAX_SIZE)],
        result |-> TRUE,
        value |-> q.p_buffer[q.read_index].val,
        destroyed |-> <<q.p_buffer[q.read_index]>>]

\* pop_implementation(reference value): value is the caller's variable.
\* destroyed: the slot content whose destructor ran (Uninit: none ran).
pop_implementation_value(q, value) ==
  IF q.current_size = 0
  THEN [q |-> q, result |-> FALSE, value |-> value, destroyed |-> <<>>]
  ELSE [q |-> [q EXCEPT !.p_buffer[q.read_index] = Uninit,
                        !.read_index = get_next_index(q.read_index, q.MAX_SIZE),
                        !.current_size = (q.current_size - 1) % Modulus],
        result |-> TRUE,
        value |-> q.p_buffer[q.read_index].val,
        destroyed |-> <<q.p_buffer[q.read_index]>>]

\* pop_implementation() that advances write_index where it should advance
\* read_index.
pop_implementation_advances_write(q) ==
  IF q.current_size = 0
  THEN [q |-> q, result |-> FALSE, destroyed |-> <<>>]
  ELSE [q |-> [q EXCEPT !.p_buffer[q.read_index] = Uninit,
                        !.write_index = get_next_index(q.write_index, q.MAX_SIZE),
                        !.current_size = (q.current_size - 1) % Modulus],
        result |-> TRUE,
        destroyed |-> <<q.p_buffer[q.read_index]>>]

\* pop_implementation() with the test for an empty queue left out.
pop_implementation_unchecked(q) ==
  [q |-> [q EXCEPT !.p_buffer[q.read_index] = Uninit,
                   !.read_index = get_next_index(q.read_index, q.MAX_SIZE),
                   !.current_size = (q.current_size - 1) % Modulus],
   result |-> TRUE,
   destroyed |-> <<q.p_buffer[q.read_index]>>]

\* pop_implementation(): destruct and discard.
pop_implementation(q) ==
  IF q.current_size = 0
  THEN [q |-> q, result |-> FALSE, destroyed |-> <<>>]
  ELSE [q |-> [q EXCEPT !.p_buffer[q.read_index] = Uninit,
                        !.read_index = get_next_index(q.read_index, q.MAX_SIZE),
                        !.current_size = (q.current_size - 1) % Modulus],
        result |-> TRUE,
        destroyed |-> <<q.p_buffer[q.read_index]>>]

\* A clear that resets the indices and the count and runs no destructor.
drain_reset(q, fuel) ==
  [q |-> [q EXCEPT !.write_index = 0, !.read_index = 0, !.current_size = 0],
   destroyed |-> <<>>,
   results |-> <<FALSE>>]

\* while (pop_implementation()) {} : the loop of clear and clear_from_unlocked.
\* results: the return value of every pop_implementation call, in order.
RECURSIVE drain(_, _)
drain(q, fuel) ==
  LET r == pop_implementation(q)
  IN  IF r.result /\ fuel > 0
      THEN LET rest == drain(r.q, fuel - 1)
           IN  [q |-> rest.q,
                destroyed |-> r.destroyed \o rest.destroyed,
                results |-> <<TRUE>> \o rest.results]
      ELSE [q |-> r.q, destroyed |-> r.destroyed, results |-> <<r.result>>]

available_from_unlocked(q) == (q.MAX_SIZE - q.current_size) % Modulus
empty_from_unlocked(q) == (q.current_size = 0)
full_from_unlocked(q) == (q.current_size = q.MAX_SIZE)
\* size_from_unlocked with the body of available_from_unlocked.
size_from_unlocked_as_available(q) == (q.MAX_SIZE - q.current_size) % Modulus

size_from_unlocked(q) == q.current_size
capacity(q) == q.MAX_SIZE
max_size(q) == q.MAX_SIZE

\* ------------------------------------------------------------------ the critical section
\* The lock and unlock callbacks (etl::ifunction<void>) given to the
\* constructor: opaque to the queue, which only invokes them.  The record
\* counts the invocations, notes whether the section is held, whether lock
\* was invoked while held, and the calls the current operation has made.
NoCalls ==
  [lock_calls |-> 0, unlock_calls |-> 0, held |-> FALSE, relock |-> FALSE,
   trace |-> <<>>]
Enter(c) == [c EXCEPT !.trace = <<>>]
Core(c, fn) == [c EXCEPT !.trace = Append(@, fn)]
RECURSIVE CoreTimes(_, _, _)
CoreTimes(c, fn, n) == IF n = 0 THEN c ELSE CoreTimes(Core(c, fn), fn, n - 1)

lock(c) ==
  [c EXCEPT !.lock_calls = @ + 1, !.held = TRUE, !.relock = @ \/ c.held,
            !.trace = Append(@, "lock")]

unlock(c) ==
  [c EXCEPT !.unlock_calls = @ + 1, !.held = FALSE,
            !.trace = Append(@, "unlock")]

\* ------------------------------------------------------------------ iqueue_spsc_locked
\* Every operation maps the queue q and the critical section c to the new
\* queue, the new critical section and what the caller gets back.
push(q, c, value, id) ==
  LET c1 == lock(c)
      r  == push_implementation(q, value, id)
      c2 == unlock(Core(c1, "push_implementation"))
  IN  [q |-> r.q, cs |-> c2, result |-> r.result, core |-> <<r.result>>,
       error |-> r.error, overwrote |-> r.overwrote]

emplace(q, c, args, id) ==
  LET c1 == lock(c)
      r  == emplace_implementation(q, args, id)
      c2 == unlock(Core(c1, "emplace_implementation"))
  IN  [q |-> r.q, cs |-> c2, result |-> r.result, core |-> <<r.result>>,
       error |-> r.error, overwrote |-> r.overwrote]

pop_value(q, c, value) ==
  LET c1 == lock(c)
      r  == pop_implementation_value(q, value)
      c2 == unlock(Core(c1, "pop_implementation"))
  IN  [q |-> r.q, cs |-> c2, result |-> r.result, core |-> <<r.result>>,
       value |-> r.value, destroyed |-> r.destroyed]

\* pop() that returns early, still holding the lock, when the queue is empty.
pop_early_return(q, c) ==
  LET c1 == lock(c)
      r  == pop_implementation(q)
      c2 == IF r.result
            THEN unlock(Core(c1, "pop_implementation"))
            ELSE Core(c1, "pop_implementation")
  IN  [q |-> r.q, cs |-> c2, result |-> r.result, core |-> <<r.result>>,
       destroyed |-> r.destroyed]

pop(q, c) ==
  LET c1 == lock(c)
      r  == pop_implementation(q)
      c2 == unlock(Core(c1, "pop_implementation"))
  IN  [q |-> r.q, cs |-> c2, result |-> r.result, core |-> <<r.result>>,
       destroyed |-> r.destroyed]

clear(q, c) ==
  LET c1 == lock(c)
      r  == drain(q, Modulus)
      c2 == unlock(CoreTimes(c1, "pop_implementation", Len(r.results)))
  IN  [q |-> r.q, cs |-> c2, core |-> r.results, destroyed |-> r.destroyed]

\* The locked queries compute into a local (a size_type, also in empty and
\* full) and return it converted to the declared return type.
BoolToSizeType(b) == IF b THEN 1 ELSE 0
SizeTypeToBool(n) == n # 0

empty(q, c) ==
  LET c1 == lock(c)
      result == BoolToSizeType(q.current_size = 0)
      c2 == unlock(Core(c1, "read"))
  IN  [cs |-> c2, result |-> SizeTypeToBool(result), core |-> <<q.current_size = 0>>]

\* full() whose local is loaded as in size().
full_as_size(q, c) ==
  LET c1 == lock(c)
      result == q.current_size
      c2 == unlock(Core(c1, "read"))
  IN  [cs |-> c2, result |-> SizeTypeToBool(result),
       core |-> <<q.current_size = q.MAX_SIZE>>]

full(q, c) ==
  LET c1 == lock(c)
      result == BoolToSizeType(q.current_size = q.MAX_SIZE)
      c2 == unlock(Core(c1, "read"))
  IN  [cs |-> c2, result |-> SizeTypeToBool(result),
       core |-> <<q.current_size = q.MAX_SIZE>>]

size(q, c) ==
  LET c1 == lock(c)
      result == q.current_size
      c2 == unlock(Core(c1, "read"))
  IN  [cs |-> c2, result |-> result, core |-> <<q.current_size>>]

\* available() whose local is loaded as in size().
available_as_size(q, c) ==
  LET c1 == lock(c)
      result == q.current_size
      c2 == unlock(Core(c1, "read"))
  IN  [cs |-> c2, result |-> result, core |-> <<q.current_size>>]

available(q, c) ==
  LET c1 == lock(c)
      result == (q.MAX_SIZE - q.current_size) % Modulus
      c2 == unlock(Core(c1, "read"))
  IN  [cs |-> c2, result |-> result,
       core |-> <<(q.MAX_SIZE - q.current_size) % Modulus>>]

\* ------------------------------------------------------------------ iqueue_spsc_locked_base
push_from_unlocked(q, c, value, id) ==
  LET r == push_implementation(q, value, id)
  IN  [q |-> r.q, cs |-> Core(c, "push_implementation"), result |-> r.result,
       core |-> <<r.result>>, error |-> r.error, overwrote |-> r.overwrote]

emplace_from_unlocked(q, c, args, id) ==
  LET r == emplace_implementation(q, args, id)
  IN  [q |-> r.q, cs |-> Core(c, "emplace_implementation"), result |-> r.result,
       core |-> <<r.result>>, error |-> r.error, overwrote |-> r.overwrote]

pop_from_unlocked_value(q, c, value) ==
  LET r == pop_implementation_value(q, value)
  IN  [q |-> r.q, cs |-> Core(c, "pop_implementation"), result |-> r.result,
       core |-> <<r.result>>, value |-> r.value, destroyed |-> r.destroyed]

pop_from_unlocked(q, c) ==
  LET r == pop_implementation(q)
  IN  [q |-> r.q, cs |-> Core(c, "pop_implementation"), result |-> r.result,
       core |-> <<r.result>>, destroyed |-> r.destroyed]

\* clear_from_unlocked that brackets the drain with lock() and unlock(), as
\* clear() does.
clear_from_unlocked_bracketed(q, c) ==
  LET c1 == lock(c)
      r  == drain(q, Modulus)
      c2 == unlock(CoreTimes(c1, "pop_implementation", Len(r.results)))
  IN  [q |-> r.q, cs |-> c2, core |-> r.results, destroyed |-> r.destroyed]

clear_from_unlocked(q, c) ==
  LET r == drain(q, Modulus)
  IN  [q |-> r.q, cs |-> CoreTimes(c, "pop_implementation", Len(r.results)),
       core |-> r.results, destroyed |-> r.destroyed]

\* queue_spsc_locked: the constructor binds MAX_SIZE = SIZE and the buffer.
queue_spsc_locked(SIZE) == iqueue_spsc_locked_base(SIZE)
\* A destructor that releases the buffer without draining it.
queue_spsc_locked_destructor_trivial(q, c) ==
  [q |-> q, cs |-> c, core |-> <<>>, destroyed |-> <<>>]

\* ~queue_spsc_locked: base_t::clear().
queue_spsc_locked_destructor(q, c) == clear(q, c)

\* ------------------------------------------------------------------ state
VARIABLES
  queue,        \* the queue object: p_buffer, write_index, read_index, current_size, MAX_SIZE
  cs,           \* the lock/unlock callbacks' record
  alive,        \* the queue object has been constructed and not yet destroyed
  call,         \* the last completed call: operation, argument, return value, output
  pushed,       \* history: the values accepted by successful pushes, in order
  popped,       \* history: the values that left the queue, in order
  dtor_calls,   \* history: destructor runs per constructed object
  stray_dtor,   \* history: a destructor ran on a slot holding no object
  overwritten,  \* history: an object was constructed over a live object
  queue_u,      \* a second queue object, driven through the _from_unlocked interface
  call_u,       \* the last completed call on queue_u
  pc,           \* foreground context: position inside its locked operation
  fg,           \* foreground context: the operation in flight and its locals
  script,       \* a caller that follows a fixed plan: the calls it has left
  owed          \* what the consumer and the producer have last observed of the queue

vars == <<queue, cs, alive, call, pushed, popped, dtor_calls, stray_dtor,
          overwritten, queue_u, call_u, pc, fg, script, owed>>
history == <<pushed, popped, dtor_calls, stray_dtor, overwritten>>
second == <<queue_u, call_u>>
callers == <<script, owed>>
others == <<second, callers>>
foreground == <<pc, fg>>

NoCall ==
  [op |-> "none", arg |-> 0, ret |-> Void, out |-> 0, results |-> <<>>,
   error |-> NoError]
\* count: the register that holds current_size between its read and its
\* write-back when the update is not one step.
NoOp ==
  [op |-> "none", arg |-> 0, result |-> FALSE, value |-> 0, results |-> <<>>,
   count |-> 0]
\* Nothing observed: consumer names the context that pops ("none": the
\* contexts have no roles), size_seen and available_seen what size() and
\* available() last returned to the consumer and to the producer, pops_since
\* and pushes_since the pops and pushes each has made since, counted up to
\* what it saw.
NothingSeen ==
  [consumer |-> "none", size_seen |-> 0, pops_since |-> 0, available_seen |-> 0,
   pushes_since |-> 0]

Capacities == {n \in 1..MaxCapacity : n <= integral_limits_max}

Init ==
  /\ \E SIZE \in Capacities :
       /\ queue = queue_spsc_locked(SIZE)
       /\ queue_u = queue_spsc_locked(SIZE)
  /\ cs = NoCalls
  /\ alive = TRUE
  /\ call = NoCall
  /\ call_u = NoCall
  /\ pushed = <<>>
  /\ popped = <<>>
  /\ dtor_calls = [id \in 1..MaxPushes |-> 0]
  /\ stray_dtor = FALSE
  /\ overwritten = FALSE
  /\ pc = "idle"
  /\ fg = NoOp
  /\ script = <<>>
  /\ owed = NothingSeen

\* ------------------------------------------------------------------ bookkeeping
ValuesOf(d) == [i \in 1..Len(d) |-> d[i].val]
DtorRuns(d, id) == Cardinality({i \in 1..Len(d) : d[i].id = id})

\* destroyed: the slot contents whose destructor ran; removed: the values that
\* left the queue; accepted: the values a successful push took in.
Record(accepted, overwrote, destroyed, removed) ==
  /\ pushed' = pushed \o accepted
  /\ overwritten' = (overwritten \/ overwrote)
  /\ popped' = popped \o removed
  /\ dtor_calls' = [id \in DOMAIN dtor_calls |-> dtor_calls[id] + DtorRuns(destroyed, id)]
  /\ stray_dtor' = (stray_dtor \/ \E i \in 1..Len(destroyed) : ~IsLive(destroyed[i]))

NextId == Len(pushed) + 1
\* A call may start when the object exists, no operation of the foreground
\* is in flight and the critical section is free.
Callable == alive /\ pc = "idle" /\ ~cs.held
MayLock == cs.lock_calls < MaxLockCalls
MayPush(q) == q.current_size = q.MAX_SIZE \/ Len(pushed) < MaxPushes

Done(op, arg, ret, out, results, error) ==
  [op |-> op, arg |-> arg, ret |-> ret, out |-> out, results |-> results,
   error |-> error]
Taken(result, value) == IF result THEN <<value>> ELSE <<>>

\* ------------------------------------------------------------------ locked calls
\* Each call runs to completion (the single-context view). The *Call
\* definitions leave the second queue object to the caller.
PushCall(value) ==
  /\ Callable /\ MayLock /\ MayPush(queue)
  /\ LET r == push(queue, Enter(cs), value, NextId)
     IN  /\ queue' = r.q
         /\ cs' = r.cs
         /\ call' = Done("push", value, r.result, 0, r.core, r.error)
         /\ Record(Taken(r.result, value), r.overwrote, <<>>, <<>>)
  /\ UNCHANGED <<alive, foreground>>

EmplaceCall(args) ==
  /\ Callable /\ MayLock /\ MayPush(queue)
  /\ LET r == emplace(queue, Enter(cs), args, NextId)
     IN  /\ queue' = r.q
         /\ cs' = r.cs
         /\ call' = Done("emplace", args, r.result, 0, r.core, r.error)
         /\ Record(Taken(r.result, args), r.overwrote, <<>>, <<>>)
  /\ UNCHANGED <<alive, foreground>>

PopValueCall(value) ==
  /\ Callable /\ MayLock
  /\ LET r == pop_value(queue, Enter(cs), value)
     IN  /\ queue' = r.q
         /\ cs' = r.cs
         /\ call' = Done("pop_value", value, r.result, r.value, r.core, NoError)
         /\ Record(<<>>, FALSE, r.destroyed, Taken(r.result, r.value))
  /\ UNCHANGED <<alive, foreground>>

PopCall ==
  /\ Callable /\ MayLock
  /\ LET r == pop(queue, Enter(cs))
     IN  /\ queue' = r.q
         /\ cs' = r.cs
         /\ call' = Done("pop", 0, r.result, 0, r.core, NoError)
         /\ Record(<<>>, FALSE, r.destroyed, ValuesOf(r.destroyed))
  /\ UNCHANGED <<alive, foreground>>

ClearCall ==
  /\ Callable /\ MayLock
  /\ LET r == clear(queue, Enter(cs))
     IN  /\ queue' = r.q
         /\ cs' = r.cs
         /\ call' = Done("clear", 0, Void, 0, r.core, NoError)
         /\ Record(<<>>, FALSE, r.destroyed, ValuesOf(r.destroyed))
  /\ UNCHANGED <<alive, foreground>>

EmptyCall ==
  /\ Callable /\ MayLock
  /\ LET r == empty(queue, Enter(cs))
     IN  /\ cs' = r.cs
         /\ call' = Done("empty", 0, r.result, 0, r.core, NoError)
  /\ UNCHANGED <<queue, alive, history, foreground>>

FullCall ==
  /\ Callable /\ MayLock
  /\ LET r == full(queue, Enter(cs))
     IN  /\ cs' = r.cs
         /\ call' = Done("full", 0, r.result, 0, r.core, NoError)
  /\ UNCHANGED <<queue, alive, history, foreground>>

SizeCall ==
  /\ Callable /\ MayLock
  /\ LET r == size(queue, Enter(cs))
     IN  /\ cs' = r.cs
         /\ call' = Done("size", 0, r.result, 0, r.core, NoError)
  /\ UNCHANGED <<queue, alive, history, foreground>>

AvailableCall ==
  /\ Callable /\ MayLock
  /\ LET r == available(queue, Enter(cs))
     IN  /\ cs' = r.cs
         /\ call' = Done("available", 0, r.result, 0, r.core, NoError)
  /\ UNCHANGED <<queue, alive, history, foreground>>

Push(value) == PushCall(value) /\ UNCHANGED others
Emplace(args) == EmplaceCall(args) /\ UNCHANGED others
PopValue(value) == PopValueCall(value) /\ UNCHANGED others
Pop == PopCall /\ UNCHANGED others
Clear == ClearCall /\ UNCHANGED others
Empty == EmptyCall /\ UNCHANGED others
Full == FullCall /\ UNCHANGED others
Size == SizeCall /\ UNCHANGED others
Available == AvailableCall /\ UNCHANGED others

\* ~queue_spsc_locked: base_t::clear(), then the buffer goes with the object.
Destroy ==
  /\ Callable /\ MayLock
  /\ LET r == queue_spsc_locked_destructor(queue, Enter(cs))
     IN  /\ queue' = r.q
         /\ cs' = r.cs
         /\ call' = Done("~queue_spsc_locked", 0, Void, 0, r.core, NoError)
         /\ Record(<<>>, FALSE, r.destroyed, ValuesOf(r.destroyed))
  /\ alive' = FALSE
  /\ UNCHANGED <<others, foreground>>

\* ------------------------------------------------------------------ _from_unlocked calls
\* Each runs to completion; it cannot start while the critical section is
\* held (the section keeps the calling context out).
PushFromUnlockedCall(value) ==
  /\ alive /\ ~cs.held /\ MayPush(queue)
  /\ LET r == push_from_unlocked(queue, Enter(cs), value, NextId)
     IN  /\ queue' = r.q
         /\ cs' = r.cs
         /\ call' = Done("push_from_unlocked", value, r.result, 0, r.core, r.error)
         /\ Record(Taken(r.result, value), r.overwrote, <<>>, <<>>)
  /\ UNCHANGED <<alive, foreground>>

PushFromUnlocked(value) == PushFromUnlockedCall(value) /\ UNCHANGED others

EmplaceFromUnlockedCall(args) ==
  /\ alive /\ ~cs.held /\ MayPush(queue)
  /\ LET r == emplace_from_unlocked(queue, Enter(cs), args, NextId)
     IN  /\ queue' = r.q
         /\ cs' = r.cs
         /\ call' = Done("emplace_from_unlocked", args, r.result, 0, r.core, r.error)
         /\ Record(Taken(r.result, args), r.overwrote, <<>>, <<>>)
  /\ UNCHANGED <<alive, foreground>>

EmplaceFromUnlocked(args) == EmplaceFromUnlockedCall(args) /\ UNCHANGED others

PopValueFromUnlockedCall(value) ==
  /\ alive /\ ~cs.held
  /\ LET r == pop_from_unlocked_value(queue, Enter(cs), value)
     IN  /\ queue' = r.q
         /\ cs' = r.cs
         /\ call' = Done("pop_from_unlocked_value", value, r.result, r.value, r.core, NoError)
         /\ Record(<<>>, FALSE, r.destroyed, Taken(r.result, r.value))
  /\ UNCHANGED <<alive, foreground>>

PopValueFromUnlocked(value) == PopValueFromUnlockedCall(value) /\ UNCHANGED others

PopFromUnlockedCall ==
  /\ alive /\ ~cs.held
  /\ LET r == pop_from_unlocked(queue, Enter(cs))
     IN  /\ queue' = r.q
         /\ cs' = r.cs
         /\ call' = Done("pop_from_unlocked", 0, r.result, 0, r.core, NoError)
         /\ Record(<<>>, FALSE, r.destroyed, ValuesOf(r.destroyed))
  /\ UNCHANGED <<alive, foreground>>

PopFromUnlocked == PopFromUnlockedCall /\ UNCHANGED others

ClearFromUnlocked ==
  /\ alive /\ ~cs.held
  /\ LET r == clear_from_unlocked(queue, Enter(cs))
     IN  /\ queue' = r.q
         /\ cs' = r.cs
         /\ call' = Done("clear_from_unlocked", 0, Void, 0, r.core, NoError)
         /\ Record(<<>>, FALSE, r.destroyed, ValuesOf(r.destroyed))
  /\ UNCHANGED <<alive, others, foreground>>

\* The const queries: op names the member, read computes its return value.
QueryCall(op, ret) ==
  /\ alive /\ ~cs.held
  /\ cs' = Core(Enter(cs), "read")
  /\ call' = Done(op, 0, ret, 0, <<ret>>, NoError)
  /\ UNCHANGED <<queue, alive, history, foreground>>

Query(op, ret) == QueryCall(op, ret) /\ UNCHANGED others

EmptyFromUnlocked == Query("empty_from_unlocked", empty_from_unlocked(queue))
FullFromUnlocked == Query("full_from_unlocked", full_from_unlocked(queue))
SizeFromUnlocked == Query("size_from_unlocked", size_from_unlocked(queue))
AvailableFromUnlocked == Query("available_from_unlocked", available_from_unlocked(queue))
Capacity == Query("capacity", capacity(queue))
MaxSize == Query("max_size", max_size(queue))

Unlocked ==
  \/ \E value \in Values : PushFromUnlocked(value)
  \/ \E args \in Values : EmplaceFromUnlocked(args)
  \/ \E value \in Values : PopValueFromUnlocked(value)
  \/ PopFromUnlocked
  \/ ClearFromUnlocked
  \/ EmptyFromUnlocked
  \/ FullFromUnlocked
  \/ SizeFromUnlocked
  \/ AvailableFromUnlocked
  \/ Capacity
  \/ MaxSize

Next ==
  \/ \E value \in Values : Push(value)
  \/ \E args \in Values : Emplace(args)
  \/ \E value \in Values : PopValue(value)
  \/ Pop
  \/ Clear
  \/ Empty
  \/ Full
  \/ Size
  \/ Available
  \/ Destroy
  \/ Unlocked

Spec == Init /\ [][Next]_vars

\* ------------------------------------------------------------------ two objects in step
\* The same call is made on queue through the locked interface and on
\* queue_u through the _from_unlocked interface (lock and unlock touch
\* nothing of the queue).
EqPush(value) ==
  /\ PushCall(value)
  /\ LET u == push_from_unlocked(queue_u, NoCalls, value, NextId)
     IN  /\ queue_u' = u.q
         /\ call_u' = Done("push_from_unlocked", value, u.result, 0, u.core, u.error)
  /\ UNCHANGED callers

EqEmplace(args) ==
  /\ EmplaceCall(args)
  /\ LET u == emplace_from_unlocked(queue_u, NoCalls, args, NextId)
     IN  /\ queue_u' = u.q
         /\ call_u' = Done("emplace_from_unlocked", args, u.result, 0, u.core, u.error)
  /\ UNCHANGED callers

EqPopValue(value) ==
  /\ PopValueCall(value)
  /\ LET u == pop_from_unlocked_value(queue_u, NoCalls, value)
     IN  /\ queue_u' = u.q
         /\ call_u' = Done("pop_from_unlocked_value", value, u.result, u.value, u.core, NoError)
  /\ UNCHANGED callers

EqPop ==
  /\ PopCall
  /\ LET u == pop_from_unlocked(queue_u, NoCalls)
     IN  /\ queue_u' = u.q
         /\ call_u' = Done("pop_from_unlocked", 0, u.result, 0, u.core, NoError)
  /\ UNCHANGED callers

EqClear ==
  /\ ClearCall
  /\ LET u == clear_from_unlocked(queue_u, NoCalls)
     IN  /\ queue_u' = u.q
         /\ call_u' = Done("clear_from_unlocked", 0, Void, 0, u.core, NoError)
  /\ UNCHANGED callers

EqEmpty ==
  /\ EmptyCall
  /\ queue_u' = queue_u
  /\ call_u' = Done("empty_from_unlocked", 0, empty_from_unlocked(queue_u), 0,
                    <<empty_from_unlocked(queue_u)>>, NoError)
  /\ UNCHANGED callers

EqFull ==
  /\ FullCall
  /\ queue_u' = queue_u
  /\ call_u' = Done("full_from_unlocked", 0, full_from_unlocked(queue_u), 0,
                    <<full_from_unlocked(queue_u)>>, NoError)
  /\ UNCHANGED callers

EqSize ==
  /\ SizeCall
  /\ queue_u' = queue_u
  /\ call_u' = Done("size_from_unlocked", 0, size_from_unlocked(queue_u), 0,
                    <<size_from_unlocked(queue_u)>>, NoError)
  /\ UNCHANGED callers

EqAvailable ==
  /\ AvailableCall
  /\ queue_u' = queue_u
  /\ call_u' = Done("available_from_unlocked", 0, available_from_unlocked(queue_u), 0,
                    <<available_from_unlocked(queue_u)>>, NoError)
  /\ UNCHANGED callers

NextEquiv ==
  \/ \E value \in Values : EqPush(value)
  \/ \E args \in Values : EqEmplace(args)
  \/ \E value \in Values : EqPopValue(value)
  \/ EqPop
  \/ EqClear
  \/ EqEmpty
  \/ EqFull
  \/ EqSize
  \/ EqAvailable

SpecEquiv == Init /\ [][NextEquiv]_vars

\* ------------------------------------------------------------------ two contexts
\* The foreground context runs the locked operations one statement at a
\* time; the interrupt context runs the _from_unlocked operations (Unlocked),
\* each to completion, whenever the critical section is not held.
FgPushOps == {"push", "emplace"}
FgDrainOps == {"clear", "~queue_spsc_locked"}
FgPopOps == {"pop_value", "pop"} \cup FgDrainOps

\* The call's first statement, lock(), with the foreground going on without
\* taking the critical section.
BeginSkipped(op, arg) ==
  /\ alive /\ pc = "idle" /\ ~cs.held /\ cs.lock_calls < MaxFgCalls
  /\ op \in FgPushOps => MayPush(queue)
  /\ cs' = Enter(cs)
  /\ fg' = [NoOp EXCEPT !.op = op, !.arg = arg, !.value = arg]
  /\ pc' = CASE op \in FgPushOps -> "test_full"
             [] op \in FgPopOps -> "test_empty"
             [] OTHER -> "load"
  /\ UNCHANGED <<queue, alive, call, history, others>>

\* The call's first statement: lock(); limit bounds the foreground's calls.
BeginWithin(limit, op, arg) ==
  /\ alive /\ pc = "idle" /\ ~cs.held /\ cs.lock_calls < limit
  /\ op \in FgPushOps => MayPush(queue)
  /\ cs' = lock(Enter(cs))
  /\ fg' = [NoOp EXCEPT !.op = op, !.arg = arg, !.value = arg]
  /\ pc' = CASE op \in FgPushOps -> "test_full"
             [] op \in FgPopOps -> "test_empty"
             [] OTHER -> "load"
  /\ UNCHANGED <<queue, alive, call, history, others>>

Begin(op, arg) == BeginWithin(MaxFgCalls, op, arg)

FgPush(value) == pc = "idle" /\ Begin("push", value)
FgEmplace(args) == pc = "idle" /\ Begin("emplace", args)
FgPopValue(value) == pc = "idle" /\ Begin("pop_value", value)
FgPop == pc = "idle" /\ Begin("pop", 0)
FgClear == pc = "idle" /\ Begin("clear", 0)
FgEmpty == pc = "idle" /\ Begin("empty", 0)
FgFull == pc = "idle" /\ Begin("full", 0)
FgSize == pc = "idle" /\ Begin("size", 0)
FgAvailable == pc = "idle" /\ Begin("available", 0)
FgDestroy == pc = "idle" /\ Begin("~queue_spsc_locked", 0)

\* push_implementation / emplace_implementation: if (current_size != MAX_SIZE)
FgTestFull ==
  /\ pc = "test_full"
  /\ cs' = Core(cs, IF fg.op = "push" THEN "push_implementation"
                    ELSE "emplace_implementation")
  /\ IF queue.current_size # queue.MAX_SIZE
     THEN pc' = "construct" /\ fg' = fg
     ELSE /\ pc' = "unlock"
          /\ fg' = [fg EXCEPT !.result = FALSE, !.results = Append(@, FALSE)]
  /\ UNCHANGED <<queue, alive, call, history, others>>

\* ::new (&p_buffer[write_index]) T(...);
FgConstruct ==
  /\ pc = "construct"
  /\ queue' = [queue EXCEPT !.p_buffer[queue.write_index] = Construct(fg.arg, NextId)]
  /\ overwritten' = (overwritten \/ IsLive(queue.p_buffer[queue.write_index]))
  /\ pc' = "write_index"
  /\ UNCHANGED <<cs, alive, call, pushed, popped, dtor_calls, stray_dtor, others, fg>>

\* write_index = get_next_index(write_index, MAX_SIZE);
FgAdvanceWrite ==
  /\ pc = "write_index"
  /\ queue' = [queue EXCEPT !.write_index = get_next_index(queue.write_index, queue.MAX_SIZE)]
  /\ pc' = "increment"
  /\ UNCHANGED <<cs, alive, call, history, others, fg>>

\* ++current_size; return true;
FgIncrement ==
  /\ pc = "increment"
  /\ queue' = [queue EXCEPT !.current_size = (queue.current_size + 1) % Modulus]
  /\ pushed' = Append(pushed, fg.arg)
  /\ fg' = [fg EXCEPT !.result = TRUE, !.results = Append(@, TRUE)]
  /\ pc' = "unlock"
  /\ UNCHANGED <<cs, alive, call, popped, dtor_calls, stray_dtor, overwritten, others>>

\* pop_implementation that waits for an element where it should return
\* false.
FgTestEmptyWaiting ==
  /\ pc = "test_empty"
  /\ queue.current_size # 0
  /\ cs' = Core(cs, "pop_implementation")
  /\ pc' = IF fg.op = "pop_value" THEN "read" ELSE "destruct"
  /\ UNCHANGED <<queue, alive, call, history, others, fg>>

\* pop_implementation: if (current_size == 0) return false;
FgTestEmpty ==
  /\ pc = "test_empty"
  /\ cs' = Core(cs, "pop_implementation")
  /\ IF queue.current_size = 0
     THEN /\ pc' = "unlock"
          /\ fg' = [fg EXCEPT !.result = FALSE, !.results = Append(@, FALSE)]
     ELSE /\ pc' = IF fg.op = "pop_value" THEN "read" ELSE "destruct"
          /\ fg' = fg
  /\ UNCHANGED <<queue, alive, call, history, others>>

\* value = p_buffer[read_index];
FgRead ==
  /\ pc = "read"
  /\ fg' = [fg EXCEPT !.value = queue.p_buffer[queue.read_index].val]
  /\ pc' = "destruct"
  /\ UNCHANGED <<queue, cs, alive, call, history, others>>

\* p_buffer[read_index].~T();
FgDestruct ==
  /\ pc = "destruct"
  /\ LET slot == queue.p_buffer[queue.read_index]
     IN  /\ queue' = [queue EXCEPT !.p_buffer[queue.read_index] = Uninit]
         /\ Record(<<>>, FALSE, <<slot>>,
                   IF fg.op = "pop_value" THEN <<fg.value>> ELSE <<slot.val>>)
  /\ pc' = "read_index"
  /\ UNCHANGED <<cs, alive, call, others, fg>>

\* read_index = get_next_index(read_index, MAX_SIZE);
FgAdvanceRead ==
  /\ pc = "read_index"
  /\ queue' = [queue EXCEPT !.read_index = get_next_index(queue.read_index, queue.MAX_SIZE)]
  /\ pc' = "decrement"
  /\ UNCHANGED <<cs, alive, call, history, others, fg>>

\* A clear() that gives the lock back after every element it has discarded
\* (the loop written over the locked pop()).
FgDecrementUnlocking ==
  /\ pc = "decrement"
  /\ queue' = [queue EXCEPT !.current_size = (queue.current_size - 1) % Modulus]
  /\ fg' = [fg EXCEPT !.result = TRUE, !.results = Append(@, TRUE)]
  /\ pc' = IF fg.op \in FgDrainOps THEN "test_empty" ELSE "unlock"
  /\ cs' = IF fg.op \in FgDrainOps THEN unlock(cs) ELSE cs
  /\ UNCHANGED <<alive, call, history, others>>

\* --current_size; return true; (clear: the loop calls pop_implementation again)
FgDecrement ==
  /\ pc = "decrement"
  /\ queue' = [queue EXCEPT !.current_size = (queue.current_size - 1) % Modulus]
  /\ fg' = [fg EXCEPT !.result = TRUE, !.results = Append(@, TRUE)]
  /\ pc' = IF fg.op \in FgDrainOps THEN "test_empty" ELSE "unlock"
  /\ UNCHANGED <<cs, alive, call, history, others>>

\* empty, full, size, available: size_type result = ...;
FgLoad ==
  /\ pc = "load"
  /\ cs' = Core(cs, "read")
  /\ fg' = [fg EXCEPT !.result =
              CASE fg.op = "empty" -> BoolToSizeType(queue.current_size = 0)
                [] fg.op = "full" -> BoolToSizeType(queue.current_size = queue.MAX_SIZE)
                [] fg.op = "size" -> queue.current_size
                [] OTHER -> (queue.MAX_SIZE - queue.current_size) % Modulus]
  /\ pc' = "unlock"
  /\ UNCHANGED <<queue, alive, call, history, others>>

\* unlock(); return result; (the destructor: the buffer goes with the object)
FgUnlockStep ==
  /\ pc = "unlock"
  /\ cs' = unlock(cs)
  /\ call' = Done(fg.op, fg.arg,
                  CASE fg.op \in FgDrainOps -> Void
                    [] fg.op \in {"empty", "full"} -> SizeTypeToBool(fg.result)
                    [] OTHER -> fg.result,
                  IF fg.op = "pop_value" THEN fg.value ELSE 0,
                  fg.results, NoError)
  /\ alive' = (fg.op # "~queue_spsc_locked")
  /\ pc' = "idle"
  /\ fg' = NoOp
  /\ UNCHANGED <<queue, history>>

FgUnlock == FgUnlockStep /\ UNCHANGED others

Foreground ==
  \/ \E value \in Values : FgPush(value)
  \/ \E args \in Values : FgEmplace(args)
  \/ \E value \in Values : FgPopValue(value)
  \/ FgPop
  \/ FgClear
  \/ FgEmpty
  \/ FgFull
  \/ FgSize
  \/ FgAvailable
  \/ FgDestroy
  \/ FgTestFull
  \/ FgConstruct
  \/ FgAdvanceWrite
  \/ FgIncrement
  \/ FgTestEmpty
  \/ FgRead
  \/ FgDestruct
  \/ FgAdvanceRead
  \/ FgDecrement
  \/ FgLoad
  \/ FgUnlock

NextISR == Foreground \/ Unlocked

SpecISR == Init /\ [][NextISR]_vars

\* ------------------------------------------------------------------ a scripted caller
\* One caller makes a fixed sequence of calls on a queue_spsc_locked<T, 4>,
\* each through the locked member or through its _from_unlocked form.
ScenarioCapacity == 4
ScriptPush(value) == [op |-> "push", arg |-> value]
ScriptPop == [op |-> "pop", arg |-> 0]
ScriptSize == [op |-> "size", arg |-> 0]
Scenario ==
  <<ScriptPush(1), ScriptPush(2), ScriptPush(3), ScriptPush(4), ScriptSize,
    ScriptPush(5), ScriptSize,
    ScriptPop, ScriptSize,
    ScriptPush(5), ScriptSize,
    ScriptPop, ScriptPop, ScriptPop, ScriptPop,
    ScriptPop>>

InitScenario ==
  /\ queue = queue_spsc_locked(ScenarioCapacity)
  /\ queue_u = queue_spsc_locked(ScenarioCapacity)
  /\ cs = NoCalls
  /\ alive = TRUE
  /\ call = NoCall
  /\ call_u = NoCall
  /\ pushed = <<>>
  /\ popped = <<>>
  /\ dtor_calls = [id \in 1..Len(Scenario) |-> 0]
  /\ stray_dtor = FALSE
  /\ overwritten = FALSE
  /\ pc = "idle"
  /\ fg = NoOp
  /\ script = Scenario
  /\ owed = NothingSeen

\* The caller's next call is op; it is made between operations.
Scripted(op) ==
  /\ script # <<>>
  /\ Head(script).op = op
  /\ Callable
  /\ script' = Tail(script)
  /\ UNCHANGED <<alive, second, foreground, owed>>

ScriptedPush ==
  /\ Scripted("push")
  /\ LET value == Head(script).arg
         r == push(queue, Enter(cs), value, NextId)
     IN  /\ queue' = r.q
         /\ cs' = r.cs
         /\ call' = Done("push", value, r.result, 0, r.core, r.error)
         /\ Record(Taken(r.result, value), r.overwrote, <<>>, <<>>)

ScriptedPushFromUnlocked ==
  /\ Scripted("push")
  /\ LET value == Head(script).arg
         r == push_from_unlocked(queue, Enter(cs), value, NextId)
     IN  /\ queue' = r.q
         /\ cs' = r.cs
         /\ call' = Done("push_from_unlocked", value, r.result, 0, r.core, r.error)
         /\ Record(Taken(r.result, value), r.overwrote, <<>>, <<>>)

\* value: what the caller's variable holds before the call.
ScriptedPop(value) ==
  /\ Scripted("pop")
  /\ LET r == pop_value(queue, Enter(cs), value)
     IN  /\ queue' = r.q
         /\ cs' = r.cs
         /\ call' = Done("pop_value", value, r.result, r.value, r.core, NoError)
         /\ Record(<<>>, FALSE, r.destroyed, Taken(r.result, r.value))

ScriptedPopFromUnlocked(value) ==
  /\ Scripted("pop")
  /\ LET r == pop_from_unlocked_value(queue, Enter(cs), value)
     IN  /\ queue' = r.q
         /\ cs' = r.cs
         /\ call' = Done("pop_from_unlocked_value", value, r.result, r.value, r.core, NoError)
         /\ Record(<<>>, FALSE, r.destroyed, Taken(r.result, r.value))

ScriptedSize ==
  /\ Scripted("size")
  /\ LET r == size(queue, Enter(cs))
     IN  /\ cs' = r.cs
         /\ call' = Done("size", 0, r.result, 0, r.core, NoError)
  /\ UNCHANGED <<queue, history>>

ScriptedSizeFromUnlocked ==
  /\ Scripted("size")
  /\ cs' = Core(Enter(cs), "read")
  /\ call' = Done("size_from_unlocked", 0, size_from_unlocked(queue), 0,
                  <<size_from_unlocked(queue)>>, NoError)
  /\ UNCHANGED <<queue, history>>

NextScenario ==
  \/ ScriptedPush
  \/ ScriptedPushFromUnlocked
  \/ \E value \in Values : ScriptedPop(value)
  \/ \E value \in Values : ScriptedPopFromUnlocked(value)
  \/ ScriptedSize
  \/ ScriptedSizeFromUnlocked

SpecScenario == InitScenario /\ [][NextScenario]_vars

\* The foreground context's next statement inside the operation in flight.
FgStep ==
  \/ FgTestFull
  \/ FgConstruct
  \/ FgAdvanceWrite
  \/ FgIncrement
  \/ FgTestEmpty
  \/ FgRead
  \/ FgDestruct
  \/ FgAdvanceRead
  \/ FgDecrement
  \/ FgLoad
  \/ FgUnlock

\* ------------------------------------------------------------------ producer and consumer
\* One context only pushes and asks available(), the other only pops and asks
\* size(); the foreground context uses the locked operations, statement by
\* statement, the interrupt context the _from_unlocked operations.
Contexts == {"foreground", "interrupt"}
SizeOps == {"size", "size_from_unlocked"}
AvailableOps == {"available", "available_from_unlocked"}
ConsumerPops == {"pop_value", "pop", "pop_from_unlocked_value", "pop_from_unlocked"}
ProducerPushes == {"push", "emplace", "push_from_unlocked", "emplace_from_unlocked"}
UpTo(n, limit) == IF n < limit THEN n ELSE limit

\* What the callers know after the call op has returned ret.
Seen(o, op, ret) ==
  CASE op \in SizeOps -> [o EXCEPT !.size_seen = ret, !.pops_since = 0]
    [] op \in AvailableOps -> [o EXCEPT !.available_seen = ret, !.pushes_since = 0]
    [] op \in ConsumerPops -> [o EXCEPT !.pops_since = UpTo(@ + 1, o.size_seen)]
    [] op \in ProducerPushes -> [o EXCEPT !.pushes_since = UpTo(@ + 1, o.available_seen)]
    [] OTHER -> o

InitRoles ==
  /\ \E SIZE \in Capacities :
       /\ queue = queue_spsc_locked(SIZE)
       /\ queue_u = queue_spsc_locked(SIZE)
  /\ cs = NoCalls
  /\ alive = TRUE
  /\ call = NoCall
  /\ call_u = NoCall
  /\ pushed = <<>>
  /\ popped = <<>>
  /\ dtor_calls = [id \in 1..MaxPushes |-> 0]
  /\ stray_dtor = FALSE
  /\ overwritten = FALSE
  /\ pc = "idle"
  /\ fg = NoOp
  /\ script = <<>>
  /\ \E consumer \in Contexts : owed = [NothingSeen EXCEPT !.consumer = consumer]

FgConsumerSize ==
  owed.consumer = "foreground" /\ BeginWithin(MaxRoleCalls, "size", 0)
FgConsumerPopValue(value) ==
  owed.consumer = "foreground" /\ BeginWithin(MaxRoleCalls, "pop_value", value)
FgConsumerPop ==
  owed.consumer = "foreground" /\ BeginWithin(MaxRoleCalls, "pop", 0)
FgProducerAvailable ==
  owed.consumer = "interrupt" /\ BeginWithin(MaxRoleCalls, "available", 0)
FgProducerPush(value) ==
  owed.consumer = "interrupt" /\ BeginWithin(MaxRoleCalls, "push", value)
FgProducerEmplace(args) ==
  owed.consumer = "interrupt" /\ BeginWithin(MaxRoleCalls, "emplace", args)

\* unlock(); return result; the caller takes note of what it was told.
FgReturn ==
  /\ FgUnlockStep
  /\ owed' = Seen(owed, fg.op, call'.ret)
  /\ UNCHANGED <<second, script>>

IsrProducerAvailable ==
  /\ owed.consumer = "foreground"
  /\ QueryCall("available_from_unlocked", available_from_unlocked(queue))
  /\ owed' = Seen(owed, "available_from_unlocked", call'.ret)
  /\ UNCHANGED <<second, script>>

IsrProducerPush(value) ==
  /\ owed.consumer = "foreground"
  /\ PushFromUnlockedCall(value)
  /\ owed' = Seen(owed, "push_from_unlocked", call'.ret)
  /\ UNCHANGED <<second, script>>

IsrProducerEmplace(args) ==
  /\ owed.consumer = "foreground"
  /\ EmplaceFromUnlockedCall(args)
  /\ owed' = Seen(owed, "emplace_from_unlocked", call'.ret)
  /\ UNCHANGED <<second, script>>

IsrConsumerSize ==
  /\ owed.consumer = "interrupt"
  /\ QueryCall("size_from_unlocked", size_from_unlocked(queue))
  /\ owed' = Seen(owed, "size_from_unlocked", call'.ret)
  /\ UNCHANGED <<second, script>>

IsrConsumerPopValue(value) ==
  /\ owed.consumer = "interrupt"
  /\ PopValueFromUnlockedCall(value)
  /\ owed' = Seen(owed, "pop_from_unlocked_value", call'.ret)
  /\ UNCHANGED <<second, script>>

IsrConsumerPop ==
  /\ owed.consumer = "interrupt"
  /\ PopFromUnlockedCall
  /\ owed' = Seen(owed, "pop_from_unlocked", call'.ret)
  /\ UNCHANGED <<second, script>>

NextRoles ==
  \/ FgConsumerSize
  \/ \E value \in Values : FgConsumerPopValue(value)
  \/ FgConsumerPop
  \/ FgProducerAvailable
  \/ \E value \in Values : FgProducerPush(value)
  \/ \E args \in Values : FgProducerEmplace(args)
  \/ FgTestFull
  \/ FgConstruct
  \/ FgAdvanceWrite
  \/ FgIncrement
  \/ FgTestEmpty
  \/ FgRead
  \/ FgDestruct
  \/ FgAdvanceRead
  \/ FgDecrement
  \/ FgLoad
  \/ FgReturn
  \/ IsrProducerAvailable
  \/ \E value \in Values : IsrProducerPush(value)
  \/ \E args \in Values : IsrProducerEmplace(args)
  \/ IsrConsumerSize
  \/ \E value \in Values : IsrConsumerPopValue(value)
  \/ IsrConsumerPop

SpecRoles == InitRoles /\ [][NextRoles]_vars

\* ------------------------------------------------------------------ no lock in the foreground
\* The foreground context calls push_from_unlocked and pop_from_unlocked
\* while the interrupt context may call them too: nothing keeps the interrupt
\* out between two statements of the foreground, and ++current_size and
\* --current_size are a read of current_size into a register and a
\* write-back of the register.  fg.op names the core function that runs.
FromUnlockedName(op) == IF op = "push" THEN "push_from_unlocked" ELSE "pop_from_unlocked"

RaceMayPush(q) == q.current_size = q.MAX_SIZE \/ Len(pushed) < MaxRacePushes
RaceMayPop(q) == q.current_size = 0 \/ Len(popped) < MaxRacePops

\* The call enters the core function directly.
RaceBegin(op, arg) ==
  /\ alive /\ pc = "idle" /\ ~cs.held
  /\ IF op \in FgPushOps THEN RaceMayPush(queue) ELSE RaceMayPop(queue)
  /\ cs' = Enter(cs)
  /\ fg' = [NoOp EXCEPT !.op = op, !.arg = arg, !.value = arg]
  /\ pc' = IF op \in FgPushOps THEN "test_full" ELSE "test_empty"
  /\ UNCHANGED <<queue, alive, call, history, others>>

RacePush(value) == pc = "idle" /\ RaceBegin("push", value)
RacePop == pc = "idle" /\ RaceBegin("pop", 0)

\* ++current_size / --current_size: the read.
RaceLoadCount ==
  /\ pc \in {"increment", "decrement"}
  /\ fg' = [fg EXCEPT !.count = queue.current_size]
  /\ pc' = IF pc = "increment" THEN "store_increment" ELSE "store_decrement"
  /\ UNCHANGED <<queue, cs, alive, call, history, others>>

\* ++current_size: the write-back; return true;
RaceStoreIncrement ==
  /\ pc = "store_increment"
  /\ queue' = [queue EXCEPT !.current_size = (fg.count + 1) % Modulus]
  /\ pushed' = Append(pushed, fg.arg)
  /\ fg' = [fg EXCEPT !.result = TRUE, !.results = Append(@, TRUE)]
  /\ pc' = "unlock"
  /\ UNCHANGED <<cs, alive, call, popped, dtor_calls, stray_dtor, overwritten, others>>

\* --current_size with the register written back as it was read.
RaceStoreDecrementSame ==
  /\ pc = "store_decrement"
  /\ queue' = [queue EXCEPT !.current_size = fg.count]
  /\ fg' = [fg EXCEPT !.result = TRUE, !.results = Append(@, TRUE)]
  /\ pc' = "unlock"
  /\ UNCHANGED <<cs, alive, call, history, others>>

\* --current_size: the write-back; return true;
RaceStoreDecrement ==
  /\ pc = "store_decrement"
  /\ queue' = [queue EXCEPT !.current_size = (fg.count - 1) % Modulus]
  /\ fg' = [fg EXCEPT !.result = TRUE, !.results = Append(@, TRUE)]
  /\ pc' = "unlock"
  /\ UNCHANGED <<cs, alive, call, history, others>>

\* return result; (no unlock: the _from_unlocked operations hold no lock)
RaceReturn ==
  /\ pc = "unlock" /\ ~cs.held
  /\ call' = Done(FromUnlockedName(fg.op), fg.arg, fg.result, 0, fg.results, NoError)
  /\ pc' = "idle"
  /\ fg' = NoOp
  /\ UNCHANGED <<queue, cs, alive, history, others>>

\* The interrupt context, between any two statements of the foreground.
RaceIsrPush(value) == RaceMayPush(queue) /\ PushFromUnlocked(value)
RaceIsrPop == RaceMayPop(queue) /\ PopFromUnlocked

NextRace ==
  \/ \E value \in Values : RacePush(value)
  \/ RacePop
  \/ FgTestFull
  \/ FgConstruct
  \/ FgAdvanceWrite
  \/ FgTestEmpty
  \/ FgDestruct
  \/ FgAdvanceRead
  \/ RaceLoadCount
  \/ RaceStoreIncrement
  \/ RaceStoreDecrement
  \/ RaceReturn
  \/ \E value \in Values : RaceIsrPush(value)
  \/ RaceIsrPop

SpecRace == Init /\ [][NextRace]_vars

\* ------------------------------------------------------------------ every capacity of the width
\* SIZE ranges over every capacity the static assertion lets through for a
\* size_type of SizeTypeBits bits, and the pushes go on until the indices
\* of the largest queue have wrapped.  One element value is enough here.
WidthCapacities == 1..integral_limits_max
WidthValues == {MaxValue}
MaxWidthPushes == Modulus + 1
WidthMayPush(q) == q.current_size = q.MAX_SIZE \/ Len(pushed) < MaxWidthPushes

InitWidth ==
  /\ \E SIZE \in WidthCapacities :
       /\ queue = queue_spsc_locked(SIZE)
       /\ queue_u = queue_spsc_locked(SIZE)
  /\ cs = NoCalls
  /\ alive = TRUE
  /\ call = NoCall
  /\ call_u = NoCall
  /\ pushed = <<>>
  /\ popped = <<>>
  /\ dtor_calls = [id \in 1..MaxPushes |-> 0]
  /\ stray_dtor = FALSE
  /\ overwritten = FALSE
  /\ pc = "idle"
  /\ fg = NoOp
  /\ script = <<>>
  /\ owed = NothingSeen

WidthPush(value) ==
  /\ alive /\ ~cs.held /\ WidthMayPush(queue)
  /\ LET r == push_from_unlocked(queue, Enter(cs), value, NextId)
     IN  /\ queue' = r.q
         /\ cs' = r.cs
         /\ call' = Done("push_from_unlocked", value, r.result, 0, r.core, r.error)
         /\ Record(Taken(r.result, value), r.overwrote, <<>>, <<>>)
  /\ UNCHANGED <<alive, foreground, others>>

WidthEmplace(args) ==
  /\ alive /\ ~cs.held /\ WidthMayPush(queue)
  /\ LET r == emplace_from_unlocked(queue, Enter(cs), args, NextId)
     IN  /\ queue' = r.q
         /\ cs' = r.cs
         /\ call' = Done("emplace_from_unlocked", args, r.result, 0, r.core, r.error)
         /\ Record(Taken(r.result, args), r.overwrote, <<>>, <<>>)
  /\ UNCHANGED <<alive, foreground, others>>

NextWidth ==
  \/ \E value \in WidthValues : WidthPush(value)
  \/ \E args \in WidthValues : WidthEmplace(args)
  \/ \E value \in WidthValues : PopValueFromUnlocked(value)
  \/ PopFromUnlocked
  \/ AvailableFromUnlocked
  \/ SizeFromUnlocked

SpecWidth == InitWidth /\ [][NextWidth]_vars

\* ================================================================== properties
PushOps == {"push", "emplace", "push_from_unlocked", "emplace_from_unlocked"}
PopOps == {"pop_value", "pop", "pop_from_unlocked_value", "pop_from_unlocked"}
PopValueOps == {"pop_value", "pop_from_unlocked_value"}
ClearOps == {"clear", "clear_from_unlocked"}
LockedOps ==
  {"push", "emplace", "pop_value", "pop", "clear", "empty", "full", "size",
   "available"}

IsPrefix(s, t) == Len(s) <= Len(t) /\ \A i \in 1..Len(s) : s[i] = t[i]
Count(seq, x) == Cardinality({i \in 1..Len(seq) : seq[i] = x})
LiveIds(q) == {q.p_buffer[i].id : i \in DOMAIN q.p_buffer} \ {0}

\* C1: in every state reachable through push, emplace, pop and clear, in
\* their locked and _from_unlocked forms, 0 <= size() <= capacity(), and
\* no step changes capacity().
C1_SizeWithinCapacity ==
  /\ [](size_from_unlocked(queue) >= 0
        /\ size_from_unlocked(queue) <= capacity(queue)
        /\ size(queue, cs).result >= 0
        /\ size(queue, cs).result <= capacity(queue))
  /\ [][capacity(queue)' = capacity(queue)]_vars

C1_Witness ==
  /\ call.op = "emplace"
  /\ queue.current_size = queue.MAX_SIZE
  /\ queue.write_index # 0
  /\ Len(popped) > 0

\* C2: the values leave in the order they entered: the sequence of values
\* that left the queue (popped; with no discarding call it is the sequence
\* of values successful pop(out) calls returned) is a prefix of the sequence
\* of values the successful pushes accepted, and a successful pop(out)
\* returns the value at its position in that sequence.
C2_Fifo ==
  /\ IsPrefix(popped, pushed)
  /\ (call.op \in PopValueOps /\ call.ret = TRUE)
       => (Len(popped) > 0 /\ call.out = pushed[Len(popped)])

C2_Witness ==
  /\ call.op = "pop_value"
  /\ call.ret = TRUE
  /\ Len(pushed) > queue.MAX_SIZE
  /\ Len(popped) = Len(pushed)
  /\ queue.MAX_SIZE > 1
  /\ pushed[1] # pushed[2]

C5_PopOnEmptyRejected ==
  [][(call'.op \in PopOps /\ queue.current_size = 0)
       => /\ call'.ret = FALSE
          /\ queue' = queue
          /\ UNCHANGED history
          /\ (call'.op \in PopValueOps => call'.out = call'.arg)]_vars

C5_Witness ==
  /\ call.op = "pop_value"
  /\ call.ret = FALSE
  /\ call.arg = 2
  /\ call.out = 2
  /\ Len(popped) > 0

\* C6: every completed locked operation has called lock once, then its core
\* operation, then unlock once, and has returned the core's result, also
\* when the core failed; between operations the lock calls equal the unlock
\* calls, and lock was never called while held.
C6_LockBrackets ==
  /\ cs.lock_calls = cs.unlock_calls
  /\ ~cs.held
  /\ ~cs.relock
  /\ call.op \in LockedOps =>
       /\ Len(cs.trace) >= 3
       /\ cs.trace[1] = "lock"
       /\ cs.trace[Len(cs.trace)] = "unlock"
       /\ Count(cs.trace, "lock") = 1
       /\ Count(cs.trace, "unlock") = 1
       /\ call.op # "clear" => (Len(cs.trace) = 3 /\ call.ret = call.results[1])

C6_Witness ==
  /\ call.op = "pop"
  /\ call.ret = FALSE
  /\ cs.trace = <<"lock", "pop_implementation", "unlock">>
  /\ cs.lock_calls >= 2

\* C8: a clear() or clear_from_unlocked() on a queue holding k elements, at
\* any read_index, leaves size() = 0 and empty() true, has run the destructor
\* of each of the k live elements once and of nothing else.
C8_ClearDrains ==
  [][call'.op \in ClearOps
       => /\ Cardinality(LiveIds(queue)) = queue.current_size
          /\ size_from_unlocked(queue') = 0
          /\ empty_from_unlocked(queue')
          /\ size(queue', cs').result = 0
          /\ empty(queue', cs').result
          /\ LiveIds(queue') = {}
          /\ \A id \in DOMAIN dtor_calls :
               dtor_calls'[id] = dtor_calls[id] + (IF id \in LiveIds(queue) THEN 1 ELSE 0)
          /\ stray_dtor' = stray_dtor]_vars

C8_Witness ==
  /\ call.op = "clear"
  /\ Len(call.results) = 3
  /\ queue.read_index = 1
  /\ dtor_calls[2] = 1
  /\ dtor_calls[3] = 1
  /\ Len(popped) = 3

\* C9: in every reachable state full() and full_from_unlocked() are true
\* exactly when size() = capacity(), and empty() and empty_from_unlocked()
\* exactly when size() = 0; so is the value a call of them has just returned.
C9_FullEmptyAgree ==
  /\ full(queue, cs).result <=> (size(queue, cs).result = capacity(queue))
  /\ full_from_unlocked(queue) <=> (size(queue, cs).result = capacity(queue))
  /\ empty(queue, cs).result <=> (size(queue, cs).result = 0)
  /\ empty_from_unlocked(queue) <=> (size(queue, cs).result = 0)
  /\ call.op \in {"full", "full_from_unlocked"}
       => (call.ret <=> (size(queue, cs).result = capacity(queue)))
  /\ call.op \in {"empty", "empty_from_unlocked"}
       => (call.ret <=> (size(queue, cs).result = 0))

C9_Witness ==
  /\ call.op = "full"
  /\ call.ret = TRUE
  /\ Len(popped) > 0
  /\ queue.MAX_SIZE > 1

\* C10: the destructor performs the locked drain: lock, one destructor run
\* for each of the k live elements, unlock, and no live slot is left; over
\* the queue's lifetime no object is destructed twice, none is constructed
\* over, and once the queue is destroyed every object a successful push
\* constructed has been destructed once.
C10_DestructorDrains ==
  /\ [](/\ \A id \in DOMAIN dtor_calls : dtor_calls[id] <= 1
        /\ ~stray_dtor
        /\ ~overwritten
        /\ ~alive =>
             /\ call.op = "~queue_spsc_locked"
             /\ Len(cs.trace) >= 3
             /\ cs.trace[1] = "lock"
             /\ cs.trace[Len(cs.trace)] = "unlock"
             /\ Count(cs.trace, "lock") = 1
             /\ Count(cs.trace, "unlock") = 1
             /\ LiveIds(queue) = {}
             /\ \A id \in DOMAIN dtor_calls :
                  dtor_calls[id] = (IF id <= Len(pushed) THEN 1 ELSE 0))
  /\ [][(alive /\ ~alive')
          => /\ Cardinality(LiveIds(queue)) = queue.current_size
             /\ \A id \in DOMAIN dtor_calls :
                  dtor_calls'[id] = dtor_calls[id] + (IF id \in LiveIds(queue) THEN 1 ELSE 0)
             /\ Count(cs'.trace, "pop_implementation") = queue.current_size + 1]_vars

C10_Witness ==
  /\ ~alive
  /\ Len(call.results) = 3
  /\ queue.read_index = 1
  /\ dtor_calls[3] = 1
  /\ Len(popped) = 3

\* C7: with lock and unlock touching nothing of the queue, the same call
\* sequence made through the locked operations (on queue) and through the
\* _from_unlocked operations (on queue_u) gives the same return value and
\* output at every call and the same count, indices and stored elements
\* after every call.
C7_LockedEqualsUnlocked ==
  /\ queue_u = queue
  /\ call_u.arg = call.arg
  /\ call_u.ret = call.ret
  /\ call_u.out = call.out
  /\ call_u.error = call.error

C7_Witness ==
  /\ call.op = "pop_value"
  /\ call_u.op = "pop_from_unlocked_value"
  /\ call_u.ret = TRUE
  /\ call_u.out = 2
  /\ Len(popped) = queue_u.MAX_SIZE
  /\ queue_u.read_index = 0
  /\ queue_u.MAX_SIZE > 1

\* The indices and the count agree with each other and with the slots
\* holding live objects.
Consistent(q) ==
  /\ q.read_index < q.MAX_SIZE
  /\ q.write_index < q.MAX_SIZE
  /\ q.write_index = (q.read_index + q.current_size) % q.MAX_SIZE
  /\ \A i \in DOMAIN q.p_buffer :
       IsLive(q.p_buffer[i]) <=> ((i - q.read_index) % q.MAX_SIZE < q.current_size)

\* C3: with the foreground running the locked operations statement by
\* statement and the interrupt context running the _from_unlocked operations
\* whenever the lock is not held, under every interleaving the interrupt
\* context finds the queue consistent (whenever it can run, index, count and
\* live slots agree), no count update is lost (with no operation in flight
\* the count is the successful pushes minus the successful pops and
\* discards), and 0 <= count <= capacity.
C3_InterruptSeesConsistentQueue ==
  /\ ~cs.held => Consistent(queue)
  /\ pc = "idle" => queue.current_size = Len(pushed) - Len(popped)
  /\ queue.current_size >= 0
  /\ queue.current_size <= queue.MAX_SIZE

\* The foreground is inside a push, the slot constructed and the index not
\* yet advanced, the lock held; the interrupt context had popped before.
C3_Witness ==
  /\ pc = "write_index"
  /\ fg.op = "push"
  /\ cs.held
  /\ ~Consistent(queue)
  /\ call.op = "pop_from_unlocked_value"
  /\ call.ret = TRUE
  /\ queue.write_index # 0

\* The operations of iqueue_spsc_locked_base: the _from_unlocked forms and the
\* two constants' accessors.
FromUnlockedOps ==
  {"push_from_unlocked", "emplace_from_unlocked", "pop_from_unlocked_value",
   "pop_from_unlocked", "clear_from_unlocked", "empty_from_unlocked",
   "full_from_unlocked", "size_from_unlocked", "available_from_unlocked"}
BaseOps == FromUnlockedOps \cup {"capacity", "max_size"}

\* C11: no _from_unlocked operation (push, emplace, pop, clear, empty, full,
\* size, available) and neither capacity() nor max_size() calls lock or
\* unlock: across any such call the count of lock calls and the count of
\* unlock calls are unchanged, the calls the operation made hold neither,
\* and the critical section is as free as it was.
C11_FromUnlockedNeverLocks ==
  [][call'.op \in BaseOps
       => /\ cs'.lock_calls = cs.lock_calls
          /\ cs'.unlock_calls = cs.unlock_calls
          /\ cs'.held = cs.held
          /\ Count(cs'.trace, "lock") = 0
          /\ Count(cs'.trace, "unlock") = 0
          /\ Len(cs'.trace) >= 1]_vars

\* A clear_from_unlocked that drained two elements, after locked calls had
\* moved the counts off zero.
C11_Witness ==
  /\ call.op = "clear_from_unlocked"
  /\ Len(call.results) = 3
  /\ cs.trace = <<"pop_implementation", "pop_implementation", "pop_implementation">>
  /\ cs.lock_calls = 2
  /\ cs.unlock_calls = 2

\* What the calls of Scenario made so far have to have returned: the return
\* value and, for a pop, the value it gave out (0: none, the call is no pop).
Made == Len(Scenario) - Len(script)
Returned(ret, out) == [ret |-> ret, out |-> out]
Expected ==
  <<Returned(TRUE, 0), Returned(TRUE, 0), Returned(TRUE, 0), Returned(TRUE, 0),
    Returned(4, 0),
    Returned(FALSE, 0), Returned(4, 0),
    Returned(TRUE, 1), Returned(3, 0),
    Returned(TRUE, 0), Returned(4, 0),
    Returned(TRUE, 2), Returned(TRUE, 3), Returned(TRUE, 4), Returned(TRUE, 5),
    Returned(FALSE, 0)>>

\* C12: with capacity 4 from the empty state: push 1, 2, 3, 4 each return
\* true and size() = 4; push 5 returns false and size() = 4; pop returns true
\* with value 1 and size() = 3; push 5 returns true, written into slot 0, to
\* which the write index had wrapped, and size() = 4; the next four pops
\* return 2, 3, 4, 5 in that order and a fifth pop returns false.
C12_Capacity4Scenario ==
  /\ capacity(queue) = 4
  /\ Made = 0 => (size_from_unlocked(queue) = 0 /\ LiveIds(queue) = {})
  /\ Made > 0 =>
       /\ call.ret = Expected[Made].ret
       /\ Scenario[Made].op = "pop" /\ call.ret = TRUE => call.out = Expected[Made].out
       /\ Scenario[Made].op = "pop" /\ call.ret = FALSE => call.out = call.arg
  /\ Made \in 4..9 => queue.write_index = 0
  /\ Made \in 8..9 => ~IsLive(queue.p_buffer[0])
  /\ Made \in 10..11 =>
       /\ queue.p_buffer[0] = Construct(5, 5)
       /\ queue.write_index = 1
  /\ Made = Len(Scenario) => (size_from_unlocked(queue) = 0 /\ LiveIds(queue) = {})

\* The whole scenario made, its last pops through both forms.
C12_Witness ==
  /\ script = <<>>
  /\ call.op = "pop_from_unlocked_value"
  /\ call.ret = FALSE
  /\ popped = <<1, 2, 3, 4, 5>>
  /\ pushed = <<1, 2, 3, 4, 5>>
  /\ cs.lock_calls > 0

QueryOps ==
  {"size", "available", "empty", "full", "size_from_unlocked",
   "available_from_unlocked", "empty_from_unlocked", "full_from_unlocked",
   "capacity", "max_size"}

\* C13: size(), available(), capacity(), max_size(), empty() and full(), and
\* their _from_unlocked forms, leave the count, write_index, read_index and
\* every stored element unchanged; in every reachable state size() returns
\* the count, capacity() returns N (the number of slots of the buffer) and
\* available() returns capacity() - size(), so available() + size() =
\* capacity(); and a call of them returns that value.
C13_QueriesReadOnly ==
  /\ [](/\ size(queue, cs).result = queue.current_size
        /\ size_from_unlocked(queue) = queue.current_size
        /\ capacity(queue) = Cardinality(DOMAIN queue.p_buffer)
        /\ max_size(queue) = capacity(queue)
        /\ available(queue, cs).result = capacity(queue) - size(queue, cs).result
        /\ available_from_unlocked(queue) = capacity(queue) - size_from_unlocked(queue)
        /\ available(queue, cs).result + size(queue, cs).result = capacity(queue)
        /\ available_from_unlocked(queue) + size_from_unlocked(queue) = capacity(queue))
  /\ [][call'.op \in QueryOps
          => /\ queue' = queue
             /\ UNCHANGED history
             /\ call'.op \in {"size", "size_from_unlocked"}
                  => call'.ret = queue.current_size
             /\ call'.op \in {"capacity", "max_size"}
                  => call'.ret = Cardinality(DOMAIN queue.p_buffer)
             /\ call'.op \in {"available", "available_from_unlocked"}
                  => call'.ret = capacity(queue) - queue.current_size]_vars

\* available() returned 1 on a queue of capacity 2 whose indices had moved.
C13_Witness ==
  /\ call.op = "available"
  /\ call.ret = 1
  /\ capacity(queue) = 2
  /\ queue.read_index = 1
  /\ Len(popped) > 0

EmplaceOps == {"emplace", "emplace_from_unlocked"}
\* The error the comments on emplace, emplace_from_unlocked and
\* emplace_implementation name.
queue_full == "etl::queue_full"

\* C14: when emplace or emplace_from_unlocked is called on a queue that is
\* already full (asserts or exceptions enabled), an etl::queue_full error is
\* raised.  emplace_implementation holds no ETL_ASSERT and no throw under
\* any configuration: the call returns false and raises nothing.
C14_EmplaceOnFullRaises ==
  [][(call'.op \in EmplaceOps /\ queue.current_size = queue.MAX_SIZE)
       => call'.error = queue_full]_vars

\* C15: in every reachable state with no operation in flight, read_index and
\* write_index are in [0, N), exactly the count slots read_index,
\* read_index + 1, ..., read_index + count - 1 (mod N) hold live elements
\* and all other slots are not live, and write_index = (read_index + count)
\* mod N; so a push never constructs into a live slot (the slot at
\* write_index is free whenever the queue is not full, also where the
\* foreground is about to construct) and a pop never reads or destructs a
\* slot that is not live (the slot at read_index is live whenever the queue
\* is not empty, also where the foreground is about to read or destruct).
C15_LiveSlotsWindow ==
  /\ pc = "idle" =>
       /\ queue.read_index \in 0..(queue.MAX_SIZE - 1)
       /\ queue.write_index \in 0..(queue.MAX_SIZE - 1)
       /\ queue.write_index = (queue.read_index + queue.current_size) % queue.MAX_SIZE
       /\ \A i \in DOMAIN queue.p_buffer :
            IsLive(queue.p_buffer[i])
              <=> \E k \in 0..(queue.current_size - 1) :
                    i = (queue.read_index + k) % queue.MAX_SIZE
       /\ queue.current_size # queue.MAX_SIZE
            => ~IsLive(queue.p_buffer[queue.write_index])
       /\ queue.current_size # 0 => IsLive(queue.p_buffer[queue.read_index])
  /\ pc = "construct" => ~IsLive(queue.p_buffer[queue.write_index])
  /\ pc \in {"read", "destruct"} => IsLive(queue.p_buffer[queue.read_index])
  /\ ~overwritten
  /\ ~stray_dtor

\* No operation in flight, the queue full with its window wrapped (slots 1
\* and 0, in that order), after calls of both contexts.
C15_Witness ==
  /\ pc = "idle"
  /\ queue.MAX_SIZE = 2
  /\ queue.read_index = 1
  /\ queue.write_index = 1
  /\ queue.current_size = 2
  /\ cs.lock_calls > 0
  /\ call.op \in FromUnlockedOps

\* C16: a successful push or emplace changes write_index to (write_index + 1)
\* mod N, increments the count by one and leaves read_index and all other
\* live elements unchanged (the new element is in the slot write_index
\* named); a successful pop changes read_index to (read_index + 1) mod N,
\* decrements the count by one and leaves write_index and all other live
\* elements unchanged; a failed push or pop advances neither index.
C16_IndexAdvance ==
  [][/\ (call'.op \in PushOps /\ call'.ret = TRUE)
          => /\ queue'.write_index = (queue.write_index + 1) % queue.MAX_SIZE
             /\ queue'.current_size = queue.current_size + 1
             /\ queue'.read_index = queue.read_index
             /\ queue'.p_buffer[queue.write_index].val = call'.arg
             /\ \A i \in DOMAIN queue.p_buffer \ {queue.write_index} :
                  queue'.p_buffer[i] = queue.p_buffer[i]
     /\ (call'.op \in PopOps /\ call'.ret = TRUE)
          => /\ queue'.read_index = (queue.read_index + 1) % queue.MAX_SIZE
             /\ queue'.current_size = queue.current_size - 1
             /\ queue'.write_index = queue.write_index
             /\ ~IsLive(queue'.p_buffer[queue.read_index])
             /\ \A i \in DOMAIN queue.p_buffer \ {queue.read_index} :
                  queue'.p_buffer[i] = queue.p_buffer[i]
     /\ (call'.op \in PushOps \cup PopOps /\ call'.ret = FALSE)
          => /\ queue'.write_index = queue.write_index
             /\ queue'.read_index = queue.read_index]_vars

\* A discarding pop moved read_index from 1 round to 0 and left the element
\* in slot 0 in place.
C16_Witness ==
  /\ call.op = "pop"
  /\ call.ret = TRUE
  /\ queue.MAX_SIZE = 2
  /\ queue.read_index = 0
  /\ queue.current_size = 1
  /\ IsLive(queue.p_buffer[0])
  /\ Len(popped) = 2

\* The queue's state by its count.
QueueState(q) ==
  CASE q.current_size = 0 -> "Empty"
    [] q.current_size = q.MAX_SIZE -> "Full"
    [] OTHER -> "Partial"
Reverse(moves) == {<<move[2], move[1]>> : move \in moves}
PushMoves == {<<"Empty", "Partial">>, <<"Partial", "Partial">>, <<"Partial", "Full">>}

PushMovesOf(q) ==
  IF q.MAX_SIZE = 1 THEN {<<"Empty", "Full">>}
  ELSE {move \in PushMoves : move # <<"Partial", "Partial">> \/ q.MAX_SIZE > 2}

Discards ==
  Count(fg.results, TRUE) + (IF pc \in {"read_index", "decrement"} THEN 1 ELSE 0)
\* The elements the queue held when the drain in flight took the lock.
HeldAtEntry == Len(pushed) - Len(popped) + Discards
Successes(k) == [i \in 1..k |-> TRUE]

\* The statements the operation in flight has left at most: those of the
\* pass in hand, and one pass of pop_implementation more for every element
\* a drain has still to discard.
StatementsLeft ==
  (CASE pc = "idle" -> 0
     [] pc = "unlock" -> 1
     [] pc \in {"increment", "decrement"} -> 2
     [] pc \in {"write_index", "read_index"} -> 3
     [] pc \in {"construct", "destruct"} -> 4
     [] pc = "read" -> 5
     [] OTHER -> 6)
  + (IF fg.op \in FgDrainOps THEN 6 * queue.current_size ELSE 0)

\* C18: every operation terminates without waiting or retrying (lock and
\* unlock returning): an operation in flight can always take its next
\* statement, whatever the queue holds, and every statement leaves it fewer
\* statements to its return; push, emplace and pop make one attempt, one call
\* of the core, and return its true/false result; clear() and the
\* destructor, started on a queue holding k elements, make exactly k
\* successful discard-pops followed by one failing pop and then return, and
\* so does clear_from_unlocked().
C18_OperationsTerminate ==
  /\ [](/\ pc # "idle" => ENABLED FgStep
        /\ StatementsLeft \in 0..(6 * queue.MAX_SIZE + 6)
        /\ (fg.op \in FgPushOps \cup {"pop_value", "pop"})
             => /\ Len(fg.results) <= 1
                /\ Count(cs.trace, "push_implementation")
                     + Count(cs.trace, "emplace_implementation")
                     + Count(cs.trace, "pop_implementation") <= 1
                /\ pc = "unlock" =>
                     /\ fg.results = <<fg.result>>
                     /\ fg.result \in BOOLEAN
        /\ (fg.op \in FgDrainOps /\ pc = "test_empty")
             => /\ fg.results = Successes(Discards)
                /\ queue.current_size = HeldAtEntry - Discards
        /\ (fg.op \in FgDrainOps /\ pc = "unlock")
             => /\ fg.results = Successes(HeldAtEntry) \o <<FALSE>>
                /\ queue.current_size = 0)
  /\ [][/\ pc # "idle" => StatementsLeft' < StatementsLeft
        /\ (fg'.op \in FgDrainOps)
             => HeldAtEntry' = (IF pc = "idle" THEN queue.current_size ELSE HeldAtEntry)
        /\ (fg.op \in FgDrainOps /\ pc' = "idle")
             => call'.results = fg.results
        /\ (pc = "idle" /\ pc' = "idle" /\ call'.op = "clear_from_unlocked")
             => call'.results = Successes(queue.current_size) \o <<FALSE>>
        /\ (call'.op \in PushOps \cup PopOps)
             => (Len(call'.results) = 1 /\ call'.ret = call'.results[1])]_vars

\* clear() has returned after two successful discard-pops and a failing one.
C18_Witness ==
  /\ pc = "idle"
  /\ call.op = "clear"
  /\ call.results = <<TRUE, TRUE, FALSE>>
  /\ cs.trace = <<"lock", "pop_implementation", "pop_implementation",
                  "pop_implementation", "unlock">>
  /\ queue.current_size = 0
  /\ Len(popped) = 3

\* The calls of pop_implementation the drain in flight has entered.
DrainPasses ==
  Len(fg.results) + (IF pc \in {"idle", "test_empty", "unlock"} THEN 0 ELSE 1)
Passes(n) == [i \in 1..n |-> "pop_implementation"]

\* C19: clear() and the destructor hold the lock once for the whole drain,
\* one lock call before the first discard-pop and one unlock call after the
\* last, not once per element: while the drain is in flight the lock is
\* held and the calls made since the operation began are that one lock and
\* the drain's own discard-pops, so no operation of the other context takes
\* effect between two discard-pops of the same clear(); and the count is 0
\* when clear() calls unlock.
C19_DrainUnderOneLock ==
  /\ [](/\ (fg.op \in FgDrainOps)
             => /\ cs.held
                /\ cs.trace = <<"lock">> \o Passes(DrainPasses)
                /\ cs.lock_calls = cs.unlock_calls + 1
        /\ (fg.op \in FgDrainOps /\ pc = "unlock")
             => queue.current_size = 0)
  /\ [][/\ (fg.op \in FgDrainOps /\ fg'.op \in FgDrainOps)
             => /\ cs'.lock_calls = cs.lock_calls
                /\ cs'.unlock_calls = cs.unlock_calls
                /\ pushed' = pushed
                /\ call'.op = call.op
                /\ queue'.current_size \in {queue.current_size, queue.current_size - 1}
                /\ queue'.write_index = queue.write_index
        /\ (fg.op \in FgDrainOps /\ pc' = "idle")
             => /\ pc = "unlock"
                /\ queue.current_size = 0
                /\ queue' = queue
                /\ cs'.trace = <<"lock">> \o Passes(Len(fg.results)) \o <<"unlock">>
                /\ cs'.unlock_calls = cs.unlock_calls + 1
                /\ ~cs'.held]_vars

\* clear() between its first and its second discard-pop, the lock held,
\* after the interrupt context had filled the queue.
C19_Witness ==
  /\ fg.op = "clear"
  /\ pc = "test_empty"
  /\ fg.results = <<TRUE>>
  /\ queue.current_size = 1
  /\ cs.held
  /\ call.op \in {"push_from_unlocked", "emplace_from_unlocked"}

\* C20: with one context the only producer and the other the only consumer
\* (the foreground using the locked operations, the interrupt context the
\* _from_unlocked operations): if the consumer observes size() = k > 0, its
\* next k pops all return true whatever pushes of the producer interleave,
\* and if the producer observes available() = a > 0, its next a pushes all
\* return true whatever pops of the consumer interleave.  (What size() and
\* available() told them was the count and the room at that moment.)
C20_ObservedSizeIsGuaranteed ==
  [][pc' = "idle"
       => /\ (call'.op \in ConsumerPops /\ owed.pops_since < owed.size_seen)
               => call'.ret = TRUE
          /\ (call'.op \in ProducerPushes /\ owed.pushes_since < owed.available_seen)
               => call'.ret = TRUE
          /\ call'.op \in SizeOps
               => (call'.ret = queue.current_size /\ owed'.size_seen = call'.ret)
          /\ call'.op \in AvailableOps
               => /\ call'.ret = queue.MAX_SIZE - queue.current_size
                  /\ owed'.available_seen = call'.ret]_vars

\* The foreground consumer saw size() = 2 on a queue of capacity 2 and has
\* made two pops since, both true; a third element was pushed by the
\* interrupt context in between (the queue was full before the first pop).
C20_Witness ==
  /\ owed.consumer = "foreground"
  /\ owed.size_seen = 2
  /\ owed.pops_since = 2
  /\ call.op = "pop_value"
  /\ call.ret = TRUE
  /\ queue.MAX_SIZE = 2
  /\ Len(pushed) = 3
  /\ Len(popped) = 2
  /\ pc = "idle"

\* C21: the lock bracket is necessary.  When the foreground calls
\* push_from_unlocked / pop_from_unlocked without the lock, its update of
\* current_size being a read and a write-back, and the interrupt context's
\* _from_unlocked push or pop may run between any two of its statements, a
\* state is reachable (C21_Witness) in which current_size differs from the
\* successful pushes minus the successful pops and write_index ==
\* (read_index + current_size) mod MAX_SIZE is broken.  The indices
\* themselves stay right between calls; current_size parts from the
\* histories only at the foreground's write-back, and only when the
\* interrupt context has changed current_size since the foreground read or
\* tested it (the register is stale, or it holds the 0 the test excluded).
Net == Len(pushed) - Len(popped)
InFlightPop == IF pc \in {"read_index", "decrement", "store_decrement"} THEN 1 ELSE 0
CountAgrees == queue.current_size = Net + InFlightPop
IndexRelation(q) == q.write_index = (q.read_index + q.current_size) % q.MAX_SIZE
C21_LockBracketNecessary ==
  /\ [](pc = "idle"
          => queue.write_index
               = (queue.read_index + Net + Len(popped) * queue.MAX_SIZE) % queue.MAX_SIZE)
  /\ [][(CountAgrees /\ ~CountAgrees')
          => /\ pc \in {"store_increment", "store_decrement"}
             /\ fg.count # queue.current_size \/ (pc = "store_decrement" /\ fg.count = 0)]_vars

\* One element was pushed; the foreground's pop_from_unlocked read
\* current_size = 1, the interrupt pushed a second element, and the
\* foreground wrote 0 back: one element is in the buffer, current_size is 0
\* and write_index is not read_index + current_size.
C21_Witness ==
  /\ pc = "idle"
  /\ call.op = "pop_from_unlocked"
  /\ call.ret = TRUE
  /\ queue.MAX_SIZE = 2
  /\ Len(pushed) = 2
  /\ Len(popped) = 1
  /\ queue.current_size = 0
  /\ queue.current_size # Net
  /\ ~IndexRelation(queue)
  /\ ~stray_dtor
  /\ ~overwritten

\* C22: with size_type a w-bit unsigned integer and a capacity N with
\* 1 <= N <= 2^w - 1, no arithmetic wraps modulo 2^w.  get_next_index is
\* only called with index < N, so the incremented value is at most N and the
\* result is (index + 1) mod N (N = 1 and N = 2^w - 1 included);
\* current_size is incremented only when it is below N and decremented only
\* when it is above 0, by exactly one as integers; and N - current_size is
\* never negative, so available() is the integer difference.
InWidth(n) == n \in 0..(Modulus - 1)
C22_NoArithmeticWraps ==
  /\ [](/\ queue.MAX_SIZE \in 1..(Modulus - 1)
        /\ queue.write_index < queue.MAX_SIZE
        /\ queue.read_index < queue.MAX_SIZE
        /\ queue.current_size <= queue.MAX_SIZE
        /\ \A index \in 0..(queue.MAX_SIZE - 1) :
             /\ InWidth(index + 1)
             /\ index + 1 <= queue.MAX_SIZE
             /\ get_next_index(index, queue.MAX_SIZE) = (index + 1) % queue.MAX_SIZE
        /\ InWidth(queue.MAX_SIZE - queue.current_size)
        /\ available_from_unlocked(queue) = queue.MAX_SIZE - queue.current_size
        /\ call.op = "available_from_unlocked"
             => call.ret = queue.MAX_SIZE - queue.current_size)
  /\ [][/\ queue'.current_size > queue.current_size
            => /\ queue.current_size < queue.MAX_SIZE
               /\ InWidth(queue.current_size + 1)
               /\ queue'.current_size = queue.current_size + 1
               /\ queue'.write_index = (queue.write_index + 1) % queue.MAX_SIZE
               /\ queue'.read_index = queue.read_index
        /\ queue'.current_size < queue.current_size
            => /\ queue.current_size > 0
               /\ InWidth(queue.current_size - 1)
               /\ queue'.current_size = queue.current_size - 1
               /\ queue'.read_index = (queue.read_index + 1) % queue.MAX_SIZE
               /\ queue'.write_index = queue.write_index
        /\ queue'.current_size = queue.current_size
            => /\ queue'.write_index = queue.write_index
               /\ queue'.read_index = queue.read_index]_vars

\* The largest capacity of the width, 2^w - 1, was filled, one element was
\* popped and one more pushed: both indices have wrapped from N - 1 to 0
\* and gone on to 1, and current_size is 2^w - 1 again.
C22_Witness ==
  /\ queue.MAX_SIZE = integral_limits_max
  /\ queue.current_size = integral_limits_max
  /\ Len(pushed) = integral_limits_max + 1
  /\ Len(popped) = 1
  /\ queue.write_index = 1
  /\ queue.read_index = 1
  /\ call.op = "push_from_unlocked"
  /\ call.ret = TRUE

====
